---- MODULE Spec2Model ----
(***************************************************************************)
(* Task Execution Engine (agent/claude_engine.py) and Execution Memory     *)
(* (agent/execution_engine.py) of instant-agent.                           *)
(*                                                                         *)
(* current_execution is <<>> for Python's None and <<task>> for a          *)
(* TaskExecution object; the field obj of a task is the identity of the    *)
(* object (the n-th TaskExecution allocated by the process).  start_task   *)
(* drops the only reference to the previous object, which the model then   *)
(* forgets.  Commands are sequences of characters, because execute_shell   *)
(* inspects them; the other texts are opaque strings.  Timestamps          *)
(* (created_at, timestamp, completed_at) are written and never read by the *)
(* program and are left out, except for the second-resolution clock that   *)
(* task_id is derived from.                                                *)
(***************************************************************************)
EXTENDS Integers, Sequences, FiniteSets, TLC

VARIABLES
    current_execution,  \* ExecutionMemory.current_execution
    persistent_memory,  \* ExecutionMemory.persistent_memory
    memory_file,        \* the contents of ExecutionMemory.memory_file on disk
    clock,              \* datetime.now() in whole seconds
    run,                \* one claude_code_execution generator per submission
    allocated,          \* history: the TaskExecution objects allocated so far
    learned,            \* history: per flavour and (action_type, command), the
                        \* count loaded at construction plus the add_step_result calls
    closed,             \* history: the complete_task calls on the current object
    last_op,            \* history: the last ExecutionMemory method that returned
    flushed,            \* history: the tables of the last flush that ran to its end
    work,               \* history: plan steps handed out (Spec), store calls made (MemSpec)
    ret                 \* history: <<call>> for the last query or tool call with what
                        \* it returned, <<>> once a method of the store has run

vars == <<current_execution, persistent_memory, memory_file, clock, run,
          allocated, learned, closed, last_op, flushed, work, ret>>

-----------------------------------------------------------------------------
(* Bounds of the model *)

MaxRuns == 2       \* submissions
MaxSteps == 2      \* plan steps over all submissions
MaxCalls == 4      \* calls of the store's methods in MemSpec

RunIds == 1..MaxRuns

-----------------------------------------------------------------------------
(* Values *)

\* Python None in an Optional[str] field holding an opaque text.
NoText == "<None>"
\* Python None in the Optional[str] command field (no character is "None").
NoCommand == <<"None">>

Queries == {"goal A"}
Summaries == {"summary"}

CmdLs == <<"l", "s">>
CmdQuery == <<"t", "l", "a">>
CmdPwd == <<"p", "w", "d">>
CmdSudo == <<"S", "u", "d", "o", " ", "l", "s">>

\* The dicts a plan can hold.  ok = FALSE is a dict without the 'description'
\* or 'action' key (ExecutionPlan.steps is List[Dict[str, str]]: no key is required).
StepSpecs ==
    { [ok |-> TRUE, description |-> <<"List", "files">>, action |-> "shell", command |-> CmdLs],
      [ok |-> TRUE, description |-> <<"Find", "docs">>, action |-> "search", command |-> CmdQuery],
      [ok |-> TRUE, description |-> <<"Think">>, action |-> "analysis", command |-> NoCommand],
      [ok |-> TRUE, description |-> <<"Ask">>, action |-> "clarify", command |-> NoCommand],
      [ok |-> TRUE, description |-> <<"List", "as", "root">>, action |-> "shell", command |-> CmdSudo],
      [ok |-> FALSE, description |-> <<>>, action |-> "", command |-> NoCommand] }

RECURSIVE SeqsUpTo(_, _)
SeqsUpTo(S, n) ==
    IF n = 0 THEN {<<>>}
    ELSE LET shorter == SeqsUpTo(S, n - 1)
         IN  shorter \cup {Append(p, s) : p \in {q \in shorter : Len(q) = n - 1}, s \in S}

Plans == SeqsUpTo(StepSpecs, MaxSteps)

\* The finalized steps a caller of the store hands to add_step_result.
RecordedSpecs ==
    {s \in StepSpecs : s.ok /\ s.action \in {"search", "shell"} /\ s.command # CmdSudo}
        \cup {[ok |-> TRUE, description |-> <<"Where">>, action |-> "shell", command |-> CmdPwd]}

PatternKeys == {<<s.action, s.command>> : s \in {t \in StepSpecs : t.ok} \cup RecordedSpecs}

-----------------------------------------------------------------------------
(* ExecutionMemory: persistence *)

EmptyMemory ==
    [successful_patterns |-> <<>>, failed_patterns |-> <<>>,
     learned_commands |-> <<>>, task_history |-> <<>>]

NoFile == [kind |-> "missing"]
TruncatedFile == [kind |-> "truncated"]
\* json.dump of the tables: str, int, bool, None and lists of them, which
\* json.load gives back as written.
JsonFile(pm) == [kind |-> "json", doc |-> pm]

_load_persistent_memory(file) ==
    IF file.kind = "json" THEN file.doc ELSE EmptyMemory

\* The snapshot m of the store is [cur, pm, file].
_save_persistent_memory(m) == [m EXCEPT !.file = JsonFile(m.pm)]

-----------------------------------------------------------------------------
(* Texts *)

\* str.lower() on the words of the model's descriptions.
LowerWord(w) ==
    CASE w = "List" -> "list"
      [] w = "Find" -> "find"
      [] w = "Think" -> "think"
      [] w = "Ask" -> "ask"
      [] w = "Where" -> "where"
      [] OTHER -> w

\* description.lower().split(): descriptions are kept as their sequence of words.
LowerSplit(description) == [k \in 1..Len(description) |-> LowerWord(description[k])]

KeywordLimit == 5

\* s[:n]
Take(s, n) == SubSeq(s, 1, IF Len(s) < n THEN Len(s) ELSE n)

\* The opaque texts of the model that are longer than 200 characters, with
\* the name of their first 200 characters (step.result[:200]).
LongStderr == "STDERR: <250 characters> Return code: 1"
LongSummary == "summary <250 characters>"
LongTexts == {LongStderr, LongSummary}
Prefix(text) ==
    CASE text = LongStderr -> "STDERR: <the first 200 characters>"
      [] text = LongSummary -> "summary <the first 200 characters>"
      [] OTHER -> text

-----------------------------------------------------------------------------
(* ExecutionMemory: operations.  Each takes and returns a snapshot           *)
(* [cur, pm, file] of the store, so that a caller can chain them.            *)

Store == [cur |-> current_execution, pm |-> persistent_memory, file |-> memory_file]

\* f"task_{datetime.now().strftime('%Y%m%d_%H%M%S')}"
TaskId(now) == <<"task", now>>

\* plan is None until set: <<>> is None and <<p>> is the list p.
TaskExecution(obj, task_id, query) ==
    [obj |-> obj, task_id |-> task_id, original_query |-> query,
     research_phase |-> NoText, plan |-> <<>>, steps |-> <<>>,
     status |-> "planning", final_result |-> NoText]

start_task(m, query, now, obj) ==
    [m EXCEPT !.cur = <<TaskExecution(obj, TaskId(now), query)>>]

add_research(m, research_result) ==
    IF m.cur # <<>>
    THEN [m EXCEPT !.cur[1].research_phase = research_result]
    ELSE m

set_plan(m, plan) ==
    IF m.cur # <<>>
    THEN [m EXCEPT !.cur[1].plan = <<plan>>, !.cur[1].status = "executing"]
    ELSE m

\* SamePattern comparing the action type alone.
SameActionType(existing, pattern) ==
    existing.action_type = pattern.action_type

\* Lines 111-112 and 130-131.
SamePattern(existing, pattern) ==
    /\ existing.action_type = pattern.action_type
    /\ existing.command = pattern.command

\* The first record of the table the loop of _learn_*_pattern stops at (0: none).
FirstMatch(table, pattern) ==
    LET hits == {k \in 1..Len(table) : SamePattern(table[k], pattern)}
    IN  IF hits = {} THEN 0 ELSE CHOOSE k \in hits : \A j \in hits : k <= j

_learn_successful_pattern(m, step) ==
    LET pattern == [action_type |-> step.action_type,
                    description_keywords |-> Take(LowerSplit(step.description), KeywordLimit),
                    command |-> step.command,
                    success_count |-> 1]
        k == FirstMatch(m.pm.successful_patterns, pattern)
    IN  IF k # 0
        THEN [m EXCEPT !.pm.successful_patterns[k].success_count = @ + 1]
        ELSE _save_persistent_memory(
                 [m EXCEPT !.pm.successful_patterns = Append(@, pattern)])

_learn_failed_pattern(m, step) ==
    LET pattern == [action_type |-> step.action_type,
                    command |-> step.command,
                    error_context |-> IF step.result \in {NoText, ""} THEN ""
                                      ELSE Prefix(step.result),
                    failure_count |-> 1]
        k == FirstMatch(m.pm.failed_patterns, pattern)
    IN  IF k # 0
        THEN [m EXCEPT !.pm.failed_patterns[k].failure_count = @ + 1]
        ELSE _save_persistent_memory(
                 [m EXCEPT !.pm.failed_patterns = Append(@, pattern)])

add_step_result(m, step) ==
    IF m.cur # <<>>
    THEN LET appended == [m EXCEPT !.cur[1].steps = Append(@, step)]
         IN  IF step.success
             THEN _learn_successful_pattern(appended, step)
             ELSE _learn_failed_pattern(appended, step)
    ELSE m

\* TaskStatus sending a failed Task back to planning.
TaskStatusReset(success) == IF success THEN "completed" ELSE "planning"

\* Line 165.
TaskStatus(success) == IF success THEN "completed" ELSE "failed"

complete_task(m, final_result, success) ==
    IF m.cur # <<>>
    THEN LET task == m.cur[1]
             task_summary == [task_id |-> task.task_id,
                              query |-> task.original_query,
                              success |-> success,
                              steps_count |-> Len(task.steps)]
         IN  _save_persistent_memory(
                 [m EXCEPT !.cur[1].final_result = final_result,
                           !.cur[1].status = TaskStatus(success),
                           !.pm.task_history = Append(@, task_summary)])
    ELSE m

\* steps[:3]
FirstSteps(steps) == SubSeq(steps, 1, IF Len(steps) < 3 THEN Len(steps) ELSE 3)

\* Line 194: steps[-3:]
LastSteps(steps) == SubSeq(steps, IF Len(steps) < 3 THEN 1 ELSE Len(steps) - 2, Len(steps))

\* One line of the context: kind is the line's label, text its string, words
\* a step's description, mark a step's status sign.
ContextLine(kind, text, words, mark) ==
    [kind |-> kind, text |-> text, words |-> words, mark |-> mark]

\* Lines 179-198: the lines that get_execution_context joins with "\n".
get_execution_context(cur) ==
    IF cur = <<>> THEN <<ContextLine("No current task execution.", "", <<>>, "")>>
    ELSE LET task == cur[1]
             recent == LastSteps(task.steps)
         IN  <<ContextLine("Current Task", task.original_query, <<>>, ""),
               ContextLine("Status", task.status, <<>>, "")>>
             \o (IF task.research_phase \in {NoText, ""} THEN <<>>
                 ELSE <<ContextLine("Research", Prefix(task.research_phase), <<>>, "...")>>)
             \o (IF task.steps = <<>> THEN <<>>
                 ELSE <<ContextLine("Completed Steps:", "", <<>>, "")>>
                      \o [k \in 1..Len(recent) |->
                             ContextLine("step", "", recent[k].description,
                                         IF recent[k].success THEN "ok" ELSE "failed")])

\* The description split without lower-casing it.
KeywordsAsGiven(description) == description

\* Line 146: keywords = description.lower().split()
Keywords(description) == LowerSplit(description)

\* Lines 138-159; reads persistent_memory only.
get_relevant_memory(pm, action_type, description) ==
    LET keywords == Keywords(description)
        Relevant(pattern) ==
            /\ pattern.action_type = action_type
            /\ \E k \in 1..Len(keywords) :
                   \E j \in 1..Len(pattern.description_keywords) :
                       keywords[k] = pattern.description_keywords[j]
        ToAvoid(pattern) == pattern.action_type = action_type
        successes == SelectSeq(pm.successful_patterns, Relevant)
        failures == SelectSeq(pm.failed_patterns, ToAvoid)
    IN  [successful_commands |-> [k \in 1..Len(successes) |-> successes[k].command],
         failed_commands |-> [k \in 1..Len(failures) |-> failures[k].command],
         suggestions |-> <<>>]

ExecutionStep(step_number, description, action_type, command) ==
    [step_number |-> step_number, description |-> description,
     action_type |-> action_type, command |-> command,
     result |-> NoText, success |-> FALSE, retry_count |-> 0]

-----------------------------------------------------------------------------
(* Action Executor (agent/tools.py) *)

\* The letters of the model's commands.
Letters ==
    <<"c", "d", "e", "f", "h", "i", "k", "l", "m", "o", "r", "s", "u">>
Capitals ==
    <<"C", "D", "E", "F", "H", "I", "K", "L", "M", "O", "R", "S", "U">>

\* str.lower() on one character of a command.
LowerChar(c) ==
    IF \E n \in 1..Len(Capitals) : Capitals[n] = c
    THEN Letters[CHOOSE n \in 1..Len(Capitals) : Capitals[n] = c]
    ELSE c

\* No case folding.
AsWritten(s) == s

\* command.lower()
Lower(s) == [k \in 1..Len(s) |-> LowerChar(s[k])]

\* sub in s
Contains(s, sub) ==
    \E k \in 0..(Len(s) - Len(sub)) : SubSeq(s, k + 1, k + Len(sub)) = sub

dangerous_commands ==
    { <<"r", "m", " ", "-", "r", "f">>,
      <<"s", "u", "d", "o">>,
      <<"c", "h", "m", "o", "d", " ", "7", "7", "7">>,
      <<"d", "d", " ", "i", "f", "=">>,
      <<"m", "k", "f", "s">>,
      <<"f", "d", "i", "s", "k">> }

Blocked == "Command blocked for safety reasons."

TimedOut == "Command timed out after 30 seconds."
NoLower == "Execution error: 'NoneType' object has no attribute 'lower'"

\* Line 40: any(dangerous in command.lower() for dangerous in dangerous_commands)
Denied(command) == \E d \in dangerous_commands : Contains(Lower(command), d)

\* What execute_shell can do for a command: the text it returns, and whether
\* it called subprocess.run on the way (ran).  None has no lower(): the
\* AttributeError is caught by the last except clause.
execute_shell(command) ==
    IF command = NoCommand THEN {[text |-> NoLower, ran |-> FALSE]}
    ELSE IF Denied(command) THEN {[text |-> Blocked, ran |-> FALSE]}
    ELSE {[text |-> t, ran |-> TRUE] : t \in {"Return code: 0", LongStderr, TimedOut}}

SearchError == "Search error: unreachable"

\* The texts search_web can return.
search_web(query) == {"**title** content URL: url", SearchError}

UnknownAction == "Unknown action type"

\* What one pass of the retry loop stores in step.result (lines 160-167), and
\* whether subprocess.run was called for it.
Dispatch(step) ==
    IF step.action_type = "search"
    THEN {[text |-> t, ran |-> FALSE] : t \in search_web(step.command)}
    ELSE IF step.action_type = "shell" THEN execute_shell(step.command)
    ELSE {[text |-> UnknownAction, ran |-> FALSE]}

-----------------------------------------------------------------------------
(* Calls of the store's methods on the process's one ExecutionMemory, with   *)
(* the history variables they feed.                                          *)

Commit(m) ==
    /\ current_execution' = m.cur
    /\ persistent_memory' = m.pm
    /\ memory_file' = m.file
    /\ flushed' = IF m.file.kind = "json" THEN m.file.doc ELSE flushed
    /\ ret' = <<>>

PatternKey(step) == <<step.action_type, step.command>>

\* The first start_task of a process has no earlier call to share its second with.
Nows == IF allocated = 0 THEN {clock} ELSE {clock, clock + 1}

CallStartTask(query, now) ==
    /\ Commit(start_task(Store, query, now, allocated + 1))
    /\ clock' = now
    /\ allocated' = allocated + 1
    /\ closed' = 0
    /\ last_op' = "start_task"
    /\ UNCHANGED learned

CallAddResearch(research_result) ==
    /\ Commit(add_research(Store, research_result))
    /\ last_op' = "add_research"
    /\ UNCHANGED <<clock, allocated, learned, closed>>

CallSetPlan(plan) ==
    /\ Commit(set_plan(Store, plan))
    /\ last_op' = "set_plan"
    /\ UNCHANGED <<clock, allocated, learned, closed>>

CallAddStepResult(step) ==
    /\ Commit(add_step_result(Store, step))
    /\ learned' = IF current_execution # <<>>
                  THEN [learned EXCEPT ![step.success][PatternKey(step)] = @ + 1]
                  ELSE learned
    /\ last_op' = "add_step_result"
    /\ UNCHANGED <<clock, allocated, closed>>

CallCompleteTask(final_result, success) ==
    /\ Commit(complete_task(Store, final_result, success))
    /\ closed' = IF current_execution # <<>> THEN closed + 1 ELSE closed
    /\ last_op' = "complete_task"
    /\ UNCHANGED <<clock, allocated, learned>>

NoCall == UNCHANGED <<current_execution, persistent_memory, memory_file, flushed,
                      clock, allocated, learned, closed, last_op, ret>>

-----------------------------------------------------------------------------
(* claude_code_execution: one generator per submission.  pc is the await or  *)
(* loop head the generator stands at:                                        *)
(*   idle      not yet called                                                *)
(*   research  awaiting research_agent.run        (line 102)                 *)
(*   plan      awaiting planning_agent.run        (line 128)                 *)
(*   loop      at the head of the for loop        (line 135)                 *)
(*   exec      at the head of the while loop      (line 158)                 *)
(*   verify    awaiting verification_agent.run    (line 178)                 *)
(*   route     at the yield of line 184 or 188, the verifier's answer in hand *)
(*   except    at the yield of line 205, the verifier's error caught         *)
(*   done      the generator has finished; its locals are gone               *)

\* A budget of four passes instead of three.
FourRetries == 3 + 1

max_retries == 3

NoVerification ==
    [raised |-> FALSE, success |-> FALSE, should_retry |-> FALSE, should_replan |-> FALSE,
     next_action |-> "continue"]

\* StepVerification as the verifier returns it.
Verifications ==
    [raised : {FALSE}, success : BOOLEAN, should_retry : BOOLEAN, should_replan : BOOLEAN,
     next_action : {"continue", "stop"}]

\* verification_agent.run raised instead of returning.
VerifyError == [NoVerification EXCEPT !.raised = TRUE]

NoStep == ExecutionStep(0, <<>>, "", NoCommand)

IdleRun ==
    [pc |-> "idle", user_query |-> "", task_id |-> <<>>, plan |-> <<>>, i |-> 0,
     step |-> NoStep, retry_count |-> 0,
     \* history variables
     opened |-> 0,                 \* identity of the Task this run started
     attempts |-> 0,               \* Action Executor calls for the current plan step
     verification |-> NoVerification,  \* the verifier's answer while it is acted on
     all_retry |-> TRUE,           \* every answer for this step was a failure asking to retry
     all_raise |-> TRUE,           \* every verifier call for this step raised
     spawned |-> FALSE,            \* the last pass for this step called subprocess.run
     exit |-> ""]                  \* how the generator finished

\* The last chunk a generator yields before it ends, by the way it ends:
\* line 219 after the for loop, line 224 in the outer except, line 191 before
\* the return of the replanning branch.
LastChunk(exit) ==
    CASE exit = "completed" -> "final result: Task executed"
      [] exit = "failed" -> "final result: Execution failed"
      [] exit = "replan" -> "progress: Replanning needed. Current approach not working."

\* The generator object after its last statement.
Finished(g, exit) ==
    [IdleRun EXCEPT !.pc = "done", !.exit = exit, !.opened = g.opened,
                    !.verification = IF exit = "replan" THEN g.verification
                                     ELSE NoVerification]

\* process_request_streaming drives one generator to its end before the next
\* submission is read.
Sequential(r) ==
    /\ \A o \in RunIds : o < r => run[o].pc = "done"
    /\ \A o \in RunIds : o > r => run[o].pc = "idle"

\* OuterExcept ending the generator without closing the Task.
OuterExceptSilent(r) ==
    /\ NoCall
    /\ run' = [run EXCEPT ![r] = Finished(run[r], "failed")]

\* Lines 221-224: the outer except closes the Task as failed.
OuterExcept(r) ==
    /\ CallCompleteTask("Execution failed", FALSE)
    /\ run' = [run EXCEPT ![r] = Finished(run[r], "failed")]

\* Lines 87-102.
Submit(r, user_query) ==
    /\ run[r].pc = "idle"
    /\ \E now \in Nows :
         /\ CallStartTask(user_query, now)
         /\ run' = [run EXCEPT ![r].pc = "research",
                               ![r].user_query = user_query,
                               ![r].task_id = TaskId(now),
                               ![r].opened = allocated + 1]
    /\ UNCHANGED work

\* Lines 102-128: research_agent.run returned.  needs_more_research adds one
\* search_web call whose text only goes to the progress stream.
ResearchReturns(r, summary, needs_more_research) ==
    /\ run[r].pc = "research"
    /\ CallAddResearch(summary)
    /\ run' = [run EXCEPT ![r].pc = "plan"]
    /\ UNCHANGED work

ResearchRaises(r) ==
    /\ run[r].pc = "research"
    /\ OuterExcept(r)
    /\ UNCHANGED work

\* Lines 128-135: planning_agent.run returned.
PlanReturns(r, steps) ==
    /\ run[r].pc = "plan"
    /\ work + Len(steps) <= MaxSteps
    /\ work' = work + Len(steps)
    /\ CallSetPlan(steps)
    /\ run' = [run EXCEPT ![r].pc = "loop", ![r].plan = steps, ![r].i = 1]

PlanRaises(r) ==
    /\ run[r].pc = "plan"
    /\ OuterExcept(r)
    /\ UNCHANGED work

\* Lines 138-142: the lookup made for the plan step the generator stands at.
MemoryContext(g) ==
    get_relevant_memory(persistent_memory, g.plan[g.i].action, g.plan[g.i].description)

\* BeginStep passing over a plan step whose command the store knows as failed.
BeginStepAvoiding(r) ==
    LET g == run[r] IN
    /\ g.pc = "loop"
    /\ g.i <= Len(g.plan)
    /\ g.plan[g.i].ok
    /\ run' = [run EXCEPT ![r].pc = IF \E k \in 1..Len(MemoryContext(g).failed_commands) :
                                         MemoryContext(g).failed_commands[k] = g.plan[g.i].command
                                    THEN "loop" ELSE "exec",
                          ![r].i = IF \E k \in 1..Len(MemoryContext(g).failed_commands) :
                                        MemoryContext(g).failed_commands[k] = g.plan[g.i].command
                                   THEN g.i + 1 ELSE g.i,
                          ![r].step = ExecutionStep(g.i, g.plan[g.i].description,
                                          g.plan[g.i].action, g.plan[g.i].command),
                          ![r].retry_count = 0,
                          ![r].attempts = 0,
                          ![r].all_retry = TRUE,
                          ![r].all_raise = TRUE,
                          ![r].spawned = FALSE]
    /\ NoCall
    /\ UNCHANGED work

\* Lines 135-156: the next plan step.  memory_context (lines 139-145) only
\* decides whether the warning line is yielded; get_relevant_memory reads.
BeginStep(r) ==
    LET g == run[r] IN
    /\ g.pc = "loop"
    /\ g.i <= Len(g.plan)
    /\ g.plan[g.i].ok
    /\ run' = [run EXCEPT ![r].pc = "exec",
                          ![r].step = ExecutionStep(g.i, g.plan[g.i].description,
                                          g.plan[g.i].action, g.plan[g.i].command),
                          ![r].retry_count = 0,
                          ![r].attempts = 0,
                          ![r].all_retry = TRUE,
                          ![r].all_raise = TRUE,
                          ![r].spawned = FALSE]
    /\ NoCall
    /\ UNCHANGED work

\* Lines 136-151: step_data['description'] or step_data['action'] raises KeyError.
BadStep(r) ==
    LET g == run[r] IN
    /\ g.pc = "loop"
    /\ g.i <= Len(g.plan)
    /\ ~g.plan[g.i].ok
    /\ OuterExcept(r)
    /\ UNCHANGED work

\* Lines 215-219: the for loop is exhausted.
Complete(r) ==
    LET g == run[r] IN
    /\ g.pc = "loop"
    /\ g.i > Len(g.plan)
    /\ CallCompleteTask("Task executed", TRUE)
    /\ run' = [run EXCEPT ![r] = Finished(g, "completed")]
    /\ UNCHANGED work

\* Execute taking the Action Executor's text for the outcome, without the
\* verifier.
ExecuteUnverified(r) ==
    LET g == run[r] IN
    /\ g.pc = "exec"
    /\ \E done \in Dispatch(g.step) :
         run' = [run EXCEPT ![r].pc = "route",
                            ![r].step.result = done.text,
                            ![r].spawned = done.ran,
                            ![r].attempts = @ + 1,
                            ![r].all_retry = FALSE,
                            ![r].all_raise = FALSE]
    /\ NoCall
    /\ UNCHANGED work

\* Lines 158-178: one pass of the while loop up to the verifier call.
Execute(r) ==
    LET g == run[r] IN
    /\ g.pc = "exec"
    /\ \E done \in Dispatch(g.step) :
         run' = [run EXCEPT ![r].pc = "verify",
                            ![r].step.result = done.text,
                            ![r].spawned = done.ran,
                            ![r].attempts = @ + 1]
    /\ NoCall
    /\ UNCHANGED work

\* Line 158 after `continue` or the except clause: the while loop goes round
\* again, or falls through to the next plan step (line 213).
WhileHead(g, retry_count) ==
    IF retry_count < max_retries
    THEN [g EXCEPT !.retry_count = retry_count, !.pc = "exec"]
    ELSE [g EXCEPT !.retry_count = retry_count, !.pc = "loop", !.i = @ + 1]

\* Route with the retry test ahead of the replan test.
RouteRetryFirst(v, retry_count) ==
    IF v.success THEN "record"
    ELSE IF v.should_retry /\ retry_count < max_retries - 1 THEN "retry"
    ELSE IF v.should_replan THEN "replan"
    ELSE "advance"

\* Route with the retry budget tested off by one.
RouteOffByOne(v, retry_count) ==
    IF v.success THEN "record"
    ELSE IF v.should_replan THEN "replan"
    ELSE IF v.should_retry /\ retry_count < max_retries THEN "retry"
    ELSE "advance"

\* Lines 183-202: what the engine does with a verifier answer.
Route(v, retry_count) ==
    IF v.success THEN "record"
    ELSE IF v.should_replan THEN "replan"
    ELSE IF v.should_retry /\ retry_count < max_retries - 1 THEN "retry"
    ELSE "advance"

\* Lines 178-184/188: verification_agent.run returned v; the generator
\* yields its progress line.
VerifyReturns(r, v) ==
    LET g == run[r] IN
    /\ g.pc = "verify"
    /\ run' = [run EXCEPT ![r].pc = "route",
                          ![r].verification = v,
                          ![r].step.success = v.success,
                          ![r].step.retry_count = g.retry_count,
                          ![r].all_retry = @ /\ ~v.success /\ v.should_retry /\ ~v.should_replan,
                          ![r].all_raise = FALSE]
    /\ NoCall
    /\ UNCHANGED work

\* Lines 204-205: verification_agent.run raised (search_web and execute_shell
\* catch every Exception themselves); the generator yields its error line.
VerifyRaises(r) ==
    /\ run[r].pc = "verify"
    /\ run' = [run EXCEPT ![r].pc = "except",
                          ![r].verification = VerifyError,
                          ![r].all_retry = FALSE]
    /\ NoCall
    /\ UNCHANGED work

\* The local `verification` is dead once the step is routed.
Routed(g) == [g EXCEPT !.verification = NoVerification]

\* RouteStep moving on from a failed step without recording it.
RouteStepSilent(r) ==
    LET g == run[r]
        route == Route(g.verification, g.retry_count)
    IN
    /\ g.pc = "route"
    /\ \/ /\ route = "record"
          /\ CallAddStepResult(g.step)
          /\ run' = [run EXCEPT ![r] = [Routed(g) EXCEPT !.pc = "loop", !.i = @ + 1]]
       \/ /\ route = "advance"
          /\ NoCall
          /\ run' = [run EXCEPT ![r] = [Routed(g) EXCEPT !.pc = "loop", !.i = @ + 1]]
       \/ /\ route = "replan"
          /\ CallAddStepResult(g.step)
          /\ run' = [run EXCEPT ![r] = Finished(g, "replan")]
       \/ /\ route = "retry"
          /\ NoCall
          /\ run' = [run EXCEPT ![r] = WhileHead(Routed(g), g.retry_count + 1)]
    /\ UNCHANGED work

\* Lines 185-202: the engine acts on the verifier's answer.
RouteStep(r) ==
    LET g == run[r]
        route == Route(g.verification, g.retry_count)
    IN
    /\ g.pc = "route"
    /\ \/ /\ route \in {"record", "advance"}
          /\ CallAddStepResult(g.step)
          /\ run' = [run EXCEPT ![r] = [Routed(g) EXCEPT !.pc = "loop", !.i = @ + 1]]
       \/ /\ route = "replan"
          /\ CallAddStepResult(g.step)
          /\ run' = [run EXCEPT ![r] = Finished(g, "replan")]
       \/ /\ route = "retry"
          /\ NoCall
          /\ run' = [run EXCEPT ![r] = WhileHead(Routed(g), g.retry_count + 1)]
    /\ UNCHANGED work

\* Lines 206-211: the inner except clause.
ExceptStep(r) ==
    LET g == run[r]
        step == [g.step EXCEPT !.result = "Error: verifier", !.success = FALSE]
        retry_count == g.retry_count + 1
        caught == [Routed(g) EXCEPT !.step = step]
    IN
    /\ g.pc = "except"
    /\ IF retry_count >= max_retries
       THEN /\ CallAddStepResult(step)
            /\ run' = [run EXCEPT ![r] = [caught EXCEPT !.retry_count = retry_count,
                                                        !.pc = "loop", !.i = @ + 1]]
       ELSE /\ NoCall
            /\ run' = [run EXCEPT ![r] = WhileHead(caught, retry_count)]
    /\ UNCHANGED work

-----------------------------------------------------------------------------
(* The engine, one submission after the other *)

Init ==
    /\ current_execution = <<>>
    /\ memory_file = NoFile
    /\ persistent_memory = _load_persistent_memory(memory_file)
    /\ clock = 0
    /\ run = [r \in RunIds |-> IdleRun]
    /\ allocated = 0
    /\ learned = [flag \in BOOLEAN |-> [key \in PatternKeys |-> 0]]
    /\ closed = 0
    /\ last_op = "construct"
    /\ flushed = EmptyMemory
    /\ work = 0
    /\ ret = <<>>

Next ==
    \/ \E r \in RunIds, q \in Queries : Sequential(r) /\ Submit(r, q)
    \/ \E r \in RunIds, s \in Summaries, more \in BOOLEAN :
           Sequential(r) /\ ResearchReturns(r, s, more)
    \/ \E r \in RunIds : Sequential(r) /\ ResearchRaises(r)
    \/ \E r \in RunIds, p \in Plans : Sequential(r) /\ PlanReturns(r, p)
    \/ \E r \in RunIds : Sequential(r) /\ PlanRaises(r)
    \/ \E r \in RunIds : Sequential(r) /\ BeginStep(r)
    \/ \E r \in RunIds : Sequential(r) /\ BadStep(r)
    \/ \E r \in RunIds : Sequential(r) /\ Complete(r)
    \/ \E r \in RunIds : Sequential(r) /\ Execute(r)
    \/ \E r \in RunIds, v \in Verifications : Sequential(r) /\ VerifyReturns(r, v)
    \/ \E r \in RunIds : Sequential(r) /\ VerifyRaises(r)
    \/ \E r \in RunIds : Sequential(r) /\ RouteStep(r)
    \/ \E r \in RunIds : Sequential(r) /\ ExceptStep(r)

Spec == Init /\ [][Next]_vars

-----------------------------------------------------------------------------
(* The Action Executor's shell capability called directly (main_agent's      *)
(* execute_shell_tool, agent.py lines 107-110) next to the engine.           *)

UpperChar(c) ==
    IF \E n \in 1..Len(Letters) : Letters[n] = c
    THEN Capitals[CHOOSE n \in 1..Len(Letters) : Letters[n] = c]
    ELSE c

\* The spellings of a command text the callers try.
Spellings(s) ==
    { s,
      [k \in 1..Len(s) |-> UpperChar(s[k])],
      [k \in 1..Len(s) |-> IF k = 1 THEN UpperChar(s[k]) ELSE s[k]] }

HarmlessCommands ==
    { CmdLs, CmdPwd,
      <<"e", "c", "h", "o", " ", "h", "i">>,
      <<"r", "m", " ", "-", "r">>,
      <<"s", "u", "d">> }

\* The commands handed to execute_shell: a deny-list entry or a harmless
\* command in some spelling, alone or inside a longer command line.
Commands ==
    { before \o text \o after :
        before \in {<<>>, <<"c", "d", " ", "/", ";", " ">>},
        text \in UNION {Spellings(c) : c \in dangerous_commands \cup HarmlessCommands},
        after \in {<<>>, <<" ", "/", "t", "m", "p">>} }

\* execute_shell keeps no state and reads none of the engine's, so a direct
\* call commutes with every step of the engine: the direct calls are taken
\* before the first submission.
CallExecuteShell(command) ==
    /\ allocated = 0
    /\ \E done \in execute_shell(command) :
         ret' = <<[op |-> "execute_shell", command |-> command,
                   text |-> done.text, ran |-> done.ran]>>
    /\ UNCHANGED <<current_execution, persistent_memory, memory_file, clock, run,
                   allocated, learned, closed, last_op, flushed, work>>

ShellNext ==
    \/ Next
    \/ \E command \in Commands : CallExecuteShell(command)

ShellSpec == Init /\ [][ShellNext]_vars

-----------------------------------------------------------------------------
(* The store on its own: any caller, any order of calls; the process can be  *)
(* torn down and a new ExecutionMemory constructed over the same file.       *)

RecordedSteps ==
    {[ExecutionStep(1, s.description, s.action, s.command)
         EXCEPT !.result = IF b THEN "Return code: 0" ELSE LongStderr, !.success = b]
       : s \in RecordedSpecs, b \in BOOLEAN}

\* The count a table holds for an (action_type, command) pair: the sum over
\* the records of that pair.
RECURSIVE CountIn(_, _, _)
CountIn(table, key, field) ==
    IF table = <<>> THEN 0
    ELSE (IF <<Head(table).action_type, Head(table).command>> = key
          THEN Head(table)[field] ELSE 0) + CountIn(Tail(table), key, field)

SuccessCount(pm, key) == CountIn(pm.successful_patterns, key, "success_count")
FailureCount(pm, key) == CountIn(pm.failed_patterns, key, "failure_count")

Budget == work < MaxCalls

MemStartTask(query) ==
    /\ Budget
    /\ \E now \in Nows : CallStartTask(query, now)
    /\ work' = work + 1
    /\ UNCHANGED run

MemAddResearch(research_result) ==
    /\ Budget
    /\ CallAddResearch(research_result)
    /\ work' = work + 1
    /\ UNCHANGED run

MemSetPlan(plan) ==
    /\ Budget
    /\ CallSetPlan(plan)
    /\ work' = work + 1
    /\ UNCHANGED run

MemAddStepResult(step) ==
    /\ Budget
    /\ CallAddStepResult(step)
    /\ work' = work + 1
    /\ UNCHANGED run

MemCompleteTask(success) ==
    /\ Budget
    /\ CallCompleteTask(IF success THEN "Task executed" ELSE "Execution failed", success)
    /\ work' = work + 1
    /\ UNCHANGED run

\* The descriptions and action types a caller asks get_relevant_memory about.
AskedDescriptions == {<<"List", "docs">>, <<"Where">>, <<"nothing">>}
AskedActionTypes == {"shell", "search"}

MemGetRelevantMemory(action_type, description) ==
    /\ ret' = <<[op |-> "get_relevant_memory", action_type |-> action_type,
                 description |-> description,
                 value |-> get_relevant_memory(persistent_memory, action_type,
                                               description)]>>
    /\ last_op' = "get_relevant_memory"
    /\ UNCHANGED <<current_execution, persistent_memory, memory_file, clock, run,
                   allocated, learned, closed, flushed, work>>

\* ExecutionMemory.__init__ (lines 37-40) in a new process over the file.
Construct(file) ==
    LET pm == _load_persistent_memory(file) IN
    /\ memory_file' = file
    /\ persistent_memory' = pm
    /\ current_execution' = <<>>
    /\ learned' = [flag \in BOOLEAN |-> [key \in PatternKeys |->
                      IF flag THEN SuccessCount(pm, key) ELSE FailureCount(pm, key)]]
    /\ closed' = 0
    /\ last_op' = "construct"
    /\ ret' = <<>>
    /\ UNCHANGED <<clock, allocated, flushed, work, run>>

\* The process ends between two calls and a new one starts.
Restart == Construct(memory_file)

\* The process is killed inside _save_persistent_memory, after open(..., 'w')
\* has truncated the file and before json.dump has written all of it (lines
\* 61-62); a new process starts.  complete_task flushes whenever a Task is set.
KillMidFlush ==
    /\ Budget
    /\ current_execution # <<>>
    /\ Construct(TruncatedFile)

MemNext ==
    \/ \E q \in Queries : MemStartTask(q)
    \/ \E s \in Summaries : MemAddResearch(s)
    \/ \E p \in SeqsUpTo(StepSpecs, 1) : MemSetPlan(p)
    \/ \E step \in RecordedSteps : MemAddStepResult(step)
    \/ \E success \in BOOLEAN : MemCompleteTask(success)
    \/ \E a \in AskedActionTypes, d \in AskedDescriptions : MemGetRelevantMemory(a, d)
    \/ Restart
    \/ KillMidFlush

MemSpec == Init /\ [][MemNext]_vars

-----------------------------------------------------------------------------
(* get_execution_context asked of a store in the middle of a Task.           *)

MaxRecorded == 4   \* steps recorded in the Task that is asked about

\* The store after add_step_result for each of the steps, in order.
RECURSIVE Replay(_, _)
Replay(m, steps) ==
    IF steps = <<>> THEN m
    ELSE Replay(add_step_result(m, Head(steps)), Tail(steps))

ResearchTexts == {NoText, "summary", LongSummary}

\* A store whose Task was started, given a research summary or not, and had
\* some steps recorded; or a store that never had a Task.
ContextInit ==
    /\ \E started \in BOOLEAN, research \in ResearchTexts,
          steps \in SeqsUpTo(RecordedSteps, MaxRecorded) :
          LET new == [cur |-> <<>>, pm |-> EmptyMemory, file |-> NoFile]
              task == start_task(new, "goal A", 0, 1)
              m == IF ~started THEN new
                   ELSE Replay(IF research = NoText THEN task
                               ELSE add_research(task, research), steps)
          IN  /\ started \/ (research = NoText /\ steps = <<>>)
              /\ current_execution = m.cur
              /\ persistent_memory = m.pm
              /\ memory_file = m.file
              /\ allocated = IF started THEN 1 ELSE 0
              /\ last_op = IF ~started THEN "construct"
                           ELSE IF steps # <<>> THEN "add_step_result"
                           ELSE IF research # NoText THEN "add_research"
                           ELSE "start_task"
              /\ flushed = IF m.file.kind = "json" THEN m.file.doc ELSE EmptyMemory
              /\ work = (IF started THEN 1 ELSE 0) + (IF research = NoText THEN 0 ELSE 1)
                            + Len(steps)
    /\ learned = [flag \in BOOLEAN |-> [key \in PatternKeys |->
                     IF flag THEN SuccessCount(persistent_memory, key)
                     ELSE FailureCount(persistent_memory, key)]]
    /\ clock = 0
    /\ run = [r \in RunIds |-> IdleRun]
    /\ closed = 0
    /\ ret = <<>>

CallGetExecutionContext ==
    /\ ret' = <<[op |-> "get_execution_context",
                 value |-> get_execution_context(current_execution)]>>
    /\ last_op' = "get_execution_context"
    /\ UNCHANGED <<current_execution, persistent_memory, memory_file, clock, run,
                   allocated, learned, closed, flushed, work>>

ContextNext == CallGetExecutionContext

ContextSpec == ContextInit /\ [][ContextNext]_vars

-----------------------------------------------------------------------------
(* The store constructed over whatever the file holds.                       *)

\* A file json.load reads without error that is not the store's tables: the
\* JSON object {"learned_commands": {}}.
ForeignFile == JsonFile([learned_commands |-> <<>>])

\* A file written by an earlier process that learned one successful pattern.
EarlierFile ==
    JsonFile([EmptyMemory EXCEPT !.successful_patterns =
                 <<[action_type |-> "shell", description_keywords |-> <<"list", "files">>,
                    command |-> CmdLs, success_count |-> 1]>>])

LoadFiles == {NoFile, TruncatedFile, ForeignFile, EarlierFile}

\* self.persistent_memory["successful_patterns"], ["failed_patterns"] and
\* ["task_history"] do not raise KeyError.
HasTables(pm) ==
    {"successful_patterns", "failed_patterns", "task_history"} \subseteq DOMAIN pm

\* The module's `execution_memory = ExecutionMemory()` over one of the files.
LoadInit ==
    /\ memory_file \in LoadFiles
    /\ persistent_memory = _load_persistent_memory(memory_file)
    /\ current_execution = <<>>
    /\ clock = 0
    /\ run = [r \in RunIds |-> IdleRun]
    /\ allocated = 0
    /\ learned = [flag \in BOOLEAN |-> [key \in PatternKeys |->
                     IF ~HasTables(persistent_memory) THEN 0
                     ELSE IF flag THEN SuccessCount(persistent_memory, key)
                     ELSE FailureCount(persistent_memory, key)]]
    /\ closed = 0
    /\ last_op = "construct"
    /\ flushed = EmptyMemory
    /\ work = 0
    /\ ret = <<>>

\* A method of the store left by a KeyError on a missing table.
Raises(task) ==
    /\ Budget
    /\ ~HasTables(persistent_memory)
    /\ current_execution' = task
    /\ last_op' = "KeyError"
    /\ ret' = <<>>
    /\ work' = work + 1
    /\ UNCHANGED <<persistent_memory, memory_file, clock, run, allocated, learned,
                   closed, flushed>>

\* add_step_result: the step is appended (line 92) before line 110 or 129
\* reads the table.
AddStepResultRaises(step) ==
    /\ current_execution # <<>>
    /\ Raises([current_execution EXCEPT ![1].steps = Append(@, step)])

\* get_relevant_memory: line 149 reads the table.
GetRelevantMemoryRaises(action_type, description) ==
    Raises(current_execution)

\* complete_task: final_result and status are set (lines 164-165) before
\* line 176 reads the table.
CompleteTaskRaises(final_result, success) ==
    /\ current_execution # <<>>
    /\ Raises([current_execution EXCEPT ![1].final_result = final_result,
                                        ![1].status = TaskStatus(success)])

LoadNext ==
    \/ \E q \in Queries : MemStartTask(q)
    \/ /\ HasTables(persistent_memory) \/ current_execution = <<>>
       /\ \E step \in RecordedSteps : MemAddStepResult(step)
    \/ /\ HasTables(persistent_memory)
       /\ \E a \in AskedActionTypes, d \in AskedDescriptions : MemGetRelevantMemory(a, d)
    \/ /\ HasTables(persistent_memory) \/ current_execution = <<>>
       /\ \E success \in BOOLEAN : MemCompleteTask(success)
    \/ \E step \in RecordedSteps : AddStepResultRaises(step)
    \/ \E a \in AskedActionTypes, d \in AskedDescriptions : GetRelevantMemoryRaises(a, d)
    \/ \E success \in BOOLEAN :
           CompleteTaskRaises(IF success THEN "Task executed" ELSE "Execution failed", success)

LoadSpec == LoadInit /\ [][LoadNext]_vars

-----------------------------------------------------------------------------
(* Two generators of claude_code_execution driven by concurrent tasks of one *)
(* event loop over the module's one execution_memory (execution_engine.py    *)
(* lines 200-201).  A generator gives way to the other only where it awaits: *)
(* research_agent.run (line 102), planning_agent.run (line 128) and          *)
(* verification_agent.run (line 178); the code between two awaits runs       *)
(* without interruption.                                                     *)

\* Plan steps of one interleaved run.
MaxInterleavedSteps == 1

AwaitPoints == {"research", "plan", "verify"}

\* Run r may take a step: every other generator is not started, finished, or
\* parked at an await.
Interleaved(r) ==
    \A o \in RunIds \ {r} : run[o].pc \in AwaitPoints \cup {"idle", "done"}

\* The plans and verifier answers of the interleaved runs: one plan step at
\* most, a shell step or a malformed dict; next_action is never read.
InterleavedPlans ==
    {p \in Plans : /\ Len(p) <= MaxInterleavedSteps
                   /\ \A k \in 1..Len(p) : ~p[k].ok \/ p[k].command = CmdLs}

InterleavedVerifications == {v \in Verifications : v.next_action = "continue"}

InterleavedNext ==
    \/ \E r \in RunIds, q \in Queries : Interleaved(r) /\ Submit(r, q)
    \/ \E r \in RunIds, s \in Summaries, more \in BOOLEAN :
           Interleaved(r) /\ ResearchReturns(r, s, more)
    \/ \E r \in RunIds : Interleaved(r) /\ ResearchRaises(r)
    \/ \E r \in RunIds, p \in InterleavedPlans : Interleaved(r) /\ PlanReturns(r, p)
    \/ \E r \in RunIds : Interleaved(r) /\ PlanRaises(r)
    \/ \E r \in RunIds : Interleaved(r) /\ BeginStep(r)
    \/ \E r \in RunIds : Interleaved(r) /\ BadStep(r)
    \/ \E r \in RunIds : Interleaved(r) /\ Complete(r)
    \/ \E r \in RunIds : Interleaved(r) /\ Execute(r)
    \/ \E r \in RunIds, v \in InterleavedVerifications :
           Interleaved(r) /\ VerifyReturns(r, v)
    \/ \E r \in RunIds : Interleaved(r) /\ VerifyRaises(r)
    \/ \E r \in RunIds : Interleaved(r) /\ RouteStep(r)
    \/ \E r \in RunIds : Interleaved(r) /\ ExceptStep(r)

InterleavedSpec == Init /\ [][InterleavedNext]_vars

-----------------------------------------------------------------------------
(* Properties of the engine (Spec) *)

Terminal == {"completed", "failed"}

Rank(status) ==
    CASE status = "planning" -> 0
      [] status = "executing" -> 1
      [] status \in Terminal -> 2

\* The Task the run r started is the store's current one.
Owns(r) ==
    /\ current_execution # <<>>
    /\ current_execution[1].obj = run[r].opened

HistoryOf(task_id) ==
    {k \in 1..Len(persistent_memory.task_history) :
        persistent_memory.task_history[k].task_id = task_id}

\* C1: when a generator has finished, complete_task has been called on the
\* Task it started: the Task is completed or failed and task_history holds an
\* entry for it.
C1_TaskAlwaysClosed ==
    \A r \in RunIds :
        (run[r].pc = "done" /\ Owns(r)) =>
            /\ current_execution[1].status \in Terminal
            /\ closed >= 1
            /\ HistoryOf(current_execution[1].task_id) # {}

\* C2: the Action Executor is called at most 3 times for a plan step, and the
\* engine is never back at the head of the retry loop after the third call.
C2_RetryBound ==
    \A r \in RunIds :
        /\ run[r].attempts <= 3
        /\ run[r].pc = "exec" => run[r].attempts < 3

\* C2 witness: a step the verifier always asked to retry was executed three
\* times and the engine is past it.
C2_Witness ==
    \E r \in RunIds :
        /\ run[r].pc = "loop"
        /\ run[r].attempts = 3
        /\ run[r].all_retry
        /\ run[r].i = run[r].step.step_number + 1

C4_ReplanFailsTask ==
    \A r \in RunIds :
        (run[r].exit = "replan" /\ Owns(r)) =>
            /\ current_execution[1].status = "failed"
            /\ closed = 1
            /\ \E k \in HistoryOf(current_execution[1].task_id) :
                   ~persistent_memory.task_history[k].success

\* C5: while every answer for a step is a failure asking to retry (and not to
\* replan), the step is executed again without being recorded until it has
\* been executed 3 times; then it is appended once, as failed, and the for
\* loop moves to the next plan step.
C5_ExhaustedRetries ==
    [][\A r \in RunIds :
          (run[r].pc = "route" /\ run[r].all_retry) =>
              IF run[r].attempts < 3
              THEN /\ run'[r].pc = "exec"
                   /\ run'[r].i = run[r].i
                   /\ current_execution' = current_execution
              ELSE /\ run[r].attempts = 3
                   /\ run'[r].pc = "loop"
                   /\ run'[r].i = run[r].i + 1
                   /\ ~run[r].step.success
                   /\ current_execution'[1].steps =
                          Append(current_execution[1].steps, run[r].step)
                   /\ current_execution'[1].status = "executing"]_vars

\* C5 witness: the step was executed three times, is recorded as failed and
\* the engine stands at the next plan step.
C5_Witness ==
    \E r \in RunIds :
        /\ run[r].pc = "loop"
        /\ run[r].attempts = 3
        /\ run[r].all_retry
        /\ Owns(r)
        /\ Len(current_execution[1].steps) = run[r].i - 1
        /\ ~current_execution[1].steps[run[r].i - 1].success
        /\ run[r].i <= Len(run[r].plan)

\* C6: as long as the store holds the same Task object, its status never
\* moves back along planning -> executing -> completed | failed, and once it
\* is completed or failed its status, plan and steps stay as they are.
C6_StatusMonotonic ==
    [][(/\ current_execution # <<>>
        /\ current_execution' # <<>>
        /\ current_execution'[1].obj = current_execution[1].obj) =>
           /\ Rank(current_execution'[1].status) >= Rank(current_execution[1].status)
           /\ current_execution[1].status \in Terminal =>
                 /\ current_execution'[1].status = current_execution[1].status
                 /\ current_execution'[1].plan = current_execution[1].plan
                 /\ current_execution'[1].steps = current_execution[1].steps]_vars

\* C6 witness: a Task failed after its plan was set and a step recorded.
C6_Witness ==
    \E r \in RunIds :
        /\ run[r].pc = "done"
        /\ Owns(r)
        /\ current_execution[1].status = "failed"
        /\ current_execution[1].plan # <<>>
        /\ Len(current_execution[1].steps) = 1

-----------------------------------------------------------------------------
(* Properties of the store *)

Records(table, key) ==
    {k \in 1..Len(table) : <<table[k].action_type, table[k].command>> = key}

\* C7: each pattern table holds at most one record per (action_type, command)
\* pair, and the record's count is the count the table was loaded with plus
\* the number of add_step_result calls made with that pair and that success
\* flag while a Task was set.
C7_PatternCounts ==
    \A key \in PatternKeys :
        /\ Cardinality(Records(persistent_memory.successful_patterns, key)) <= 1
        /\ Cardinality(Records(persistent_memory.failed_patterns, key)) <= 1
        /\ SuccessCount(persistent_memory, key) = learned[TRUE][key]
        /\ FailureCount(persistent_memory, key) = learned[FALSE][key]

\* C7 witness: two pairs of the same action type were learned as successes,
\* one of them twice.
C7_Witness ==
    /\ last_op = "add_step_result"
    /\ Len(persistent_memory.successful_patterns) = 2
    /\ persistent_memory.successful_patterns[1].action_type =
           persistent_memory.successful_patterns[2].action_type
    /\ \E k \in 1..2 : persistent_memory.successful_patterns[k].success_count = 2

\* C8: when add_step_result or complete_task has returned, the file holds the
\* tables the store has in memory.
C8_WriteThrough ==
    last_op \in {"add_step_result", "complete_task"} =>
        _load_persistent_memory(memory_file) = persistent_memory

\* C9: a store constructed after the process ended, at whatever point, has
\* the pattern records and history entries of the last flush that ran to its
\* end.
C9_CrashKeepsFlushed ==
    last_op = "construct" => persistent_memory = flushed

Active ==
    /\ current_execution # <<>>
    /\ current_execution[1].status \notin Terminal

\* C10: a start_task call made while a Task is active leaves that Task the
\* store's current Task, unchanged.
C10_NoReplaceActive ==
    [][(Active /\ allocated' # allocated) =>
           current_execution' = current_execution]_vars

\* C11: an add_research or set_plan call made on a store that has no Task does
\* not return normally (work counts the calls of the store's methods, last_op
\* names the last one that returned).
C11_NoTaskStateError ==
    [][(current_execution = <<>> /\ work' # work) =>
           last_op' \notin {"add_research", "set_plan"}]_vars

\* C12: once complete_task has closed a Task, an add_research, set_plan or
\* add_step_result call made before the next start_task leaves the Task's
\* research, plan, steps and status as they are.
C12_CompletedTaskFrozen ==
    [][(/\ current_execution # <<>>
        /\ current_execution[1].status \in Terminal
        /\ work' # work
        /\ last_op' \in {"add_research", "set_plan", "add_step_result"}) =>
           /\ current_execution' # <<>>
           /\ current_execution'[1].research_phase = current_execution[1].research_phase
           /\ current_execution'[1].plan = current_execution[1].plan
           /\ current_execution'[1].steps = current_execution[1].steps
           /\ current_execution'[1].status = current_execution[1].status]_vars

-----------------------------------------------------------------------------
(* Properties of the engine's step handling (Spec) *)

\* The generator r stands at the head of the for loop with a plan step of the
\* given kind next.
Reaches(r, kind) ==
    /\ run[r].pc = "loop"
    /\ run[r].i <= Len(run[r].plan)
    /\ run[r].plan[run[r].i].ok
    /\ run[r].plan[run[r].i].action = kind

\* C13: when the engine reaches a plan step of kind clarify the generator
\* ends there with the Task closed: the step is not handed to the retry loop
\* (no Action Executor pass, no verifier call) and no later step is begun.
C13_ClarifyEndsTask ==
    [][\A r \in RunIds :
          Reaches(r, "clarify") =>
              /\ run'[r].pc = "done"
              /\ current_execution'[1].status \in Terminal]_vars

\* C14: when the verifier's answer for step i has next_action = stop, the
\* engine does not move on to a later step of the plan.
C14_StopHalts ==
    [][\A r \in RunIds :
          (run[r].pc = "route" /\ run[r].verification.next_action = "stop") =>
              ~(/\ run'[r].pc = "loop"
                /\ run'[r].i > run[r].i
                /\ run'[r].i <= Len(run'[r].plan))]_vars

\* C15: when the research call or the plan call raises, the generator ends
\* with its Task failed, the failure text as final result, no step recorded
\* and one history entry with success = false appended; a finished generator
\* runs nothing more, and the next submission opens a new Task in status
\* planning with no steps.
C15_ReasoningFailureFailsTask ==
    [][\A r \in RunIds :
          /\ (run[r].pc \in {"research", "plan"} /\ run'[r].pc = "done") =>
                /\ run'[r].exit = "failed"
                /\ current_execution' # <<>>
                /\ current_execution'[1].obj = run[r].opened
                /\ current_execution'[1].status = "failed"
                /\ current_execution'[1].final_result = "Execution failed"
                /\ current_execution'[1].steps = <<>>
                /\ persistent_memory'.task_history =
                       Append(persistent_memory.task_history,
                              [task_id |-> run[r].task_id, query |-> run[r].user_query,
                               success |-> FALSE, steps_count |-> 0])
          /\ (run[r].pc = "done" /\ run[r].exit = "failed") => run'[r] = run[r]
          /\ (run[r].pc = "idle" /\ run'[r].pc # "idle") =>
                /\ current_execution' # <<>>
                /\ current_execution'[1].obj \notin 1..allocated
                /\ current_execution'[1].status = "planning"
                /\ current_execution'[1].plan = <<>>
                /\ current_execution'[1].steps = <<>>]_vars

\* C15 witness: the first submission failed before any plan step was handed
\* out, and the second one has opened its own Task.
C15_Witness ==
    /\ run[1].pc = "done"
    /\ run[1].exit = "failed"
    /\ work = 0
    /\ Len(persistent_memory.task_history) = 1
    /\ ~persistent_memory.task_history[1].success
    /\ run[2].pc = "research"
    /\ Owns(2)
    /\ current_execution[1].status = "planning"

\* C16: when the verifier call has raised on every pass of a step and the
\* retry budget is used up, the generator ends with the Task failed; the step
\* is not recorded as a failed step and no failed pattern is learned for it.
C16_VerifierFailureFailsTask ==
    [][\A r \in RunIds :
          (run[r].pc = "except" /\ run[r].all_raise /\ run[r].attempts = max_retries) =>
              /\ run'[r].pc = "done"
              /\ current_execution'[1].status = "failed"
              /\ current_execution'[1].steps = current_execution[1].steps
              /\ persistent_memory'.failed_patterns = persistent_memory.failed_patterns]_vars

\* The texts by which the Action Executor reports a failure.
ActionFailures == {Blocked, TimedOut, NoLower, SearchError, UnknownAction}

\* C17: a step recorded with an Action Executor failure as its result has
\* success = false, whatever the verifier answered, and no successful pattern
\* is learned for it.
C17_ActionFailureRecordedFailed ==
    [][\A r \in RunIds :
          (/\ run[r].pc = "route"
           /\ run[r].step.result \in ActionFailures
           /\ current_execution'[1].steps # current_execution[1].steps) =>
              /\ ~current_execution'[1].steps[Len(current_execution'[1].steps)].success
              /\ persistent_memory'.successful_patterns = persistent_memory.successful_patterns
              /\ FailureCount(persistent_memory', PatternKey(run[r].step)) =
                     FailureCount(persistent_memory, PatternKey(run[r].step)) + 1]_vars

\* The chunks a caller can take for the end of a submission: the completion
\* summary, the failure message, a clarification request, a plan confirmation.
ClosingChunks ==
    {"final result: Task executed", "final result: Execution failed",
     "clarification request", "plan confirmation"}

\* C18: a generator that has ended has yielded, as its last chunk, a final
\* result string, a clarification request or a plan confirmation.
C18_StreamEndsWithFinalChunk ==
    \A r \in RunIds : run[r].pc = "done" => LastChunk(run[r].exit) \in ClosingChunks

-----------------------------------------------------------------------------
(* Properties of the Action Executor (ShellSpec) *)

\* The two characters are the same letter, whatever their case.
SameLetter(a, b) ==
    \/ a = b
    \/ \E n \in 1..Len(Letters) : {a, b} = {Letters[n], Capitals[n]}

\* The command contains a deny-list entry, compared case-insensitively.
HoldsDenied(command) ==
    \E d \in dangerous_commands :
        \E k \in 0..(Len(command) - Len(d)) :
            \A j \in 1..Len(d) : SameLetter(command[k + j], d[j])

\* C19: for a command that contains a deny-list entry in any spelling,
\* execute_shell returns the blocked result without calling subprocess.run,
\* when called directly and on every pass the engine makes for a shell step.
C19_DenyListBlocks ==
    /\ (ret # <<>> /\ ret[1].op = "execute_shell" /\ HoldsDenied(ret[1].command)) =>
           (ret[1].text = Blocked /\ ~ret[1].ran)
    /\ \A r \in RunIds :
           (/\ run[r].pc \in {"verify", "route"}
            /\ run[r].step.action_type = "shell"
            /\ run[r].step.command # NoCommand
            /\ HoldsDenied(run[r].step.command)) =>
               (run[r].step.result = Blocked /\ ~run[r].spawned)

\* C19 witness: the engine has made its third pass for a shell step whose
\* command holds "Sudo", and the pass was blocked.
C19_Witness ==
    \E r \in RunIds :
        /\ run[r].pc = "verify"
        /\ run[r].attempts = 3
        /\ run[r].step.command = CmdSudo
        /\ run[r].step.result = Blocked
        /\ ~run[r].spawned

-----------------------------------------------------------------------------
(* Properties of the store's lookup (MemSpec) *)

\* The records of a table with the asked action type; for the successful
\* table, those among them whose stored keywords hold a word of the
\* lower-cased description.
Matching(table, action_type) ==
    {k \in 1..Len(table) : table[k].action_type = action_type}

Sharing(table, action_type, description) ==
    {k \in Matching(table, action_type) :
        \E w \in {LowerWord(description[n]) : n \in 1..Len(description)} :
            \E j \in 1..Len(table[k].description_keywords) :
                table[k].description_keywords[j] = w}

\* The list holds the commands of the records hits of the table, one each.
ListsExactly(list, table, hits) ==
    /\ Len(list) = Cardinality(hits)
    /\ {list[k] : k \in 1..Len(list)} = {table[k].command : k \in hits}

\* C20: get_relevant_memory returns as successful_commands the commands of
\* the successful records of the asked action type that share a keyword with
\* the lower-cased, split description, as failed_commands the commands of
\* all failed records of the asked action type, and the call leaves the
\* store's Task, tables and file as they are.
C20_RelevantMemory ==
    /\ []((ret # <<>> /\ ret[1].op = "get_relevant_memory") =>
            /\ ListsExactly(ret[1].value.successful_commands,
                            persistent_memory.successful_patterns,
                            Sharing(persistent_memory.successful_patterns,
                                    ret[1].action_type, ret[1].description))
            /\ ListsExactly(ret[1].value.failed_commands,
                            persistent_memory.failed_patterns,
                            Matching(persistent_memory.failed_patterns,
                                     ret[1].action_type)))
    /\ [][(ret' # <<>> /\ ret'[1].op = "get_relevant_memory") =>
              UNCHANGED <<current_execution, persistent_memory, memory_file>>]_vars

\* C20 witness: asked about a shell step, the store returned one of its two
\* successful shell commands, the one found through a capitalised word of
\* the description, and a failed command.
C20_Witness ==
    /\ ret # <<>>
    /\ ret[1].op = "get_relevant_memory"
    /\ ret[1].action_type = "shell"
    /\ ret[1].description = <<"List", "docs">>
    /\ Len(persistent_memory.successful_patterns) = 2
    /\ Cardinality(Matching(persistent_memory.successful_patterns, "shell")) = 2
    /\ ret[1].value.successful_commands = <<CmdLs>>
    /\ Len(ret[1].value.failed_commands) = 1

-----------------------------------------------------------------------------
(* Properties of the engine's use of the store (Spec) *)

\* C21: whatever the pattern tables hold, the engine takes every well-formed
\* plan step into the retry loop with the action kind and command of the
\* plan, and each pass of the loop hands exactly these to the Action Executor.
C21_MemoryAdvisory ==
    [][\A r \in RunIds :
          /\ (/\ run[r].pc = "loop"
              /\ run[r].i <= Len(run[r].plan)
              /\ run[r].plan[run[r].i].ok) =>
                 /\ run'[r].pc = "exec"
                 /\ run'[r].i = run[r].i
                 /\ run'[r].step.action_type = run[r].plan[run[r].i].action
                 /\ run'[r].step.command = run[r].plan[run[r].i].command
          /\ run[r].pc = "exec" =>
                 /\ run[r].step.action_type = run[r].plan[run[r].i].action
                 /\ run[r].step.command = run[r].plan[run[r].i].command
                 /\ run'[r].pc = "verify"
                 /\ run'[r].attempts = run[r].attempts + 1
                 /\ run'[r].step.command = run[r].step.command
                 /\ [text |-> run'[r].step.result, ran |-> run'[r].spawned] \in
                        Dispatch([action_type |-> run[r].plan[run[r].i].action,
                                  command |-> run[r].plan[run[r].i].command])]_vars

\* C21 witness: the Action Executor has run a step whose command the lookup
\* for that step returned among the failed commands.
C21_Witness ==
    \E r \in RunIds :
        /\ run[r].pc = "verify"
        /\ run[r].attempts = 1
        /\ run[r].step.action_type = "shell"
        /\ \E k \in 1..Len(MemoryContext(run[r]).failed_commands) :
               MemoryContext(run[r]).failed_commands[k] = run[r].step.command

-----------------------------------------------------------------------------
(* Properties of the store's construction (LoadSpec) *)

\* The file is missing, unparseable, or holds something else than the tables.
MissingOrCorrupt(file) == ~(file.kind = "json" /\ HasTables(file.doc))

\* C22: a store constructed over a missing or corrupt file has empty
\* successful_patterns, failed_patterns and task_history, and no later call
\* of add_step_result, get_relevant_memory or complete_task fails.
C22_LoadTolerant ==
    /\ (last_op = "construct" /\ MissingOrCorrupt(memory_file)) =>
           /\ HasTables(persistent_memory)
           /\ persistent_memory.successful_patterns = <<>>
           /\ persistent_memory.failed_patterns = <<>>
           /\ persistent_memory.task_history = <<>>
    /\ last_op # "KeyError"

-----------------------------------------------------------------------------
(* Properties of the Task's records (Spec) *)

\* C23: no two entries of task_history written by the process share a
\* task_id (every start_task call returned an identifier of its own).
C23_UniqueTaskIds ==
    \A j, k \in 1..Len(persistent_memory.task_history) :
        j # k => persistent_memory.task_history[j].task_id #
                     persistent_memory.task_history[k].task_id

\* C24: a pass of the Action Executor is always followed by the verifier call
\* on its result, during which nothing is recorded; the engine records a
\* step, goes round the retry loop or moves on in the plan only with the
\* verifier's answer or error in hand.
C24_VerifiedBeforeRouted ==
    [][\A r \in RunIds :
          /\ run[r].pc = "exec" =>
                (run'[r].pc = "verify" /\ current_execution' = current_execution)
          /\ run[r].pc = "verify" =>
                /\ run'[r].pc \in {"route", "except"}
                /\ run'[r].step.result = run[r].step.result
                /\ current_execution' = current_execution
          /\ (run'[r].pc \in {"route", "except"}) => run[r].pc = "verify"
          /\ (/\ Owns(r)
              /\ current_execution' # <<>>
              /\ current_execution'[1].obj = current_execution[1].obj
              /\ current_execution'[1].steps # current_execution[1].steps) =>
                 run[r].pc \in {"route", "except"}
          /\ (run'[r].pc = "exec" /\ run[r].pc # "loop") =>
                 run[r].pc \in {"route", "except"}
          /\ (run'[r].pc = "loop" /\ run[r].pc \notin {"loop", "plan"}) =>
                 run[r].pc \in {"route", "except"}]_vars

\* C24 witness: a blocked shell command went through the verifier and is
\* recorded.
C24_Witness ==
    \E r \in RunIds :
        /\ run[r].pc = "loop"
        /\ Owns(r)
        /\ Len(current_execution[1].steps) = 1
        /\ current_execution[1].steps[1].result = Blocked
        /\ run[r].attempts = 1

-----------------------------------------------------------------------------
(* Properties of the store's digest (ContextSpec) *)

IsStepLine(line) == line.kind = "step"
IsResearchLine(line) == line.kind = "Research"

\* C25: get_execution_context lists the last three recorded steps of the
\* Task (all of them when there are fewer), in the order they were appended,
\* each with the sign of its success flag; its research line carries the
\* first 200 characters of the summary; the call leaves the store as it is.
C25_BoundedContext ==
    /\ []((ret # <<>> /\ ret[1].op = "get_execution_context" /\ current_execution # <<>>) =>
            LET steps == current_execution[1].steps
                shown == SelectSeq(ret[1].value, IsStepLine)
                about == SelectSeq(ret[1].value, IsResearchLine)
                n == Len(steps)
                m == IF n < 3 THEN n ELSE 3
            IN  /\ Len(shown) = m
                /\ \A k \in 1..m :
                       /\ shown[k].words = steps[n - m + k].description
                       /\ shown[k].mark = "ok" <=> steps[n - m + k].success
                       /\ shown[k].mark = "failed" <=> ~steps[n - m + k].success
                /\ Len(about) <= 1
                /\ \A k \in 1..Len(about) :
                       /\ about[k].text \notin LongTexts
                       /\ about[k].text = Prefix(current_execution[1].research_phase))
    /\ [][(ret' # <<>> /\ ret'[1].op = "get_execution_context") =>
              UNCHANGED <<current_execution, persistent_memory, memory_file>>]_vars

\* C25 witness: the Task has four steps of which the first differs from the
\* fourth, a summary longer than 200 characters, and the digest was returned.
C25_Witness ==
    /\ ret # <<>>
    /\ ret[1].op = "get_execution_context"
    /\ current_execution # <<>>
    /\ Len(current_execution[1].steps) = 4
    /\ current_execution[1].steps[1].description # current_execution[1].steps[4].description
    /\ current_execution[1].steps[1].success # current_execution[1].steps[2].success
    /\ current_execution[1].research_phase = LongSummary

-----------------------------------------------------------------------------
(* Properties of the engine's step records (Spec) *)

\* The run r appends a step to the Task it started.
Appends(r) ==
    /\ Owns(r)
    /\ run[r].pc \in {"route", "except"}
    /\ current_execution' # <<>>
    /\ current_execution'[1].obj = current_execution[1].obj
    /\ Len(current_execution'[1].steps) = Len(current_execution[1].steps) + 1

\* C26: a step is appended with retry_count equal to the number of Action
\* Executor passes made for it minus one.
C26_RetryCountIsAttempts ==
    [][\A r \in RunIds :
          Appends(r) =>
              current_execution'[1].steps[Len(current_execution'[1].steps)].retry_count =
                  run[r].attempts - 1]_vars

\* C27: the steps of a Task are numbered 1..k in the order of the plan; while
\* its run works on plan step i the Task holds the steps 1..i-1, one for each
\* plan step passed; a completed Task holds as many steps as its plan, and
\* so says the steps_count of its history entry.
C27_OneStepPerPlanStep ==
    current_execution # <<>> =>
        LET task == current_execution[1]
            history == persistent_memory.task_history
        IN  /\ \A k \in 1..Len(task.steps) : task.steps[k].step_number = k
            /\ \A r \in RunIds :
                   (Owns(r) /\ run[r].pc \in {"loop", "exec", "verify", "route", "except"}) =>
                       Len(task.steps) = run[r].i - 1
            /\ task.status = "completed" =>
                   /\ task.plan # <<>>
                   /\ Len(task.steps) = Len(task.plan[1])
                   /\ history # <<>>
                   /\ history[Len(history)].task_id = task.task_id
                   /\ history[Len(history)].steps_count = Len(task.plan[1])

\* C27 witness: a Task with a two-step plan is completed; its second step
\* was given up after three passes.
C27_Witness ==
    /\ current_execution # <<>>
    /\ current_execution[1].status = "completed"
    /\ Len(current_execution[1].plan[1]) = 2
    /\ Len(current_execution[1].steps) = 2
    /\ current_execution[1].steps[1].success
    /\ ~current_execution[1].steps[2].success
    /\ current_execution[1].steps[2].retry_count = 2

\* C28: with two submissions interleaved at their awaits, every call a run
\* makes that changes the store's Task (add_research, set_plan,
\* add_step_result, complete_task) changes the Task that run opened; the
\* steps_count complete_task writes is then the count of the run's own steps.
C28_WritesGoToOwnTask ==
    [][\A r \in RunIds :
          (/\ run[r].pc # "idle"
           /\ run'[r] # run[r]
           /\ current_execution' # current_execution) => Owns(r)]_vars

====
